---- MODULE Spec2Model ----
(***************************************************************************)
(* The HTML renderer of pulldown-cmark (src/src/html.rs): HtmlWriter::run, *)
(* start_tag, end_tag and raw_text driven over a finite event sequence,    *)
(* writing to a sink that either cannot fail (String) or may fail at any   *)
(* write (io::Write).                                                      *)
(*                                                                         *)
(* Text is a sequence of tokens.  A payload is a sequence of one-character *)
(* tokens; a markup literal of the source ("<p>", "</li>") is one token;   *)
(* the newline is always the token "\n" of its own.  Str joins tokens into *)
(* the string the sink holds.                                              *)
(***************************************************************************)
EXTENDS Integers, Sequences, FiniteSets, TLC

(***************************************************************************)
(* Bounds of the model.                                                    *)
(***************************************************************************)
\* longest sequence drawn over the image alphabet
MaxLen == 5
\* longest sequence drawn over the footnote alphabet
MaxNotes == 4
\* longest context put before one arbitrary event
MaxCtx == 1
\* most cells in a generated table row
MaxCells == 3
\* longest sequence drawn over the image alphabet when termination is checked
MaxLive == 4
\* events in a nest of blocks and inlines
MaxPlain == 4

(***************************************************************************)
(* parse::Alignment, parse::LinkType, parse::Tag, parse::Event             *)
(***************************************************************************)
Alignment == {"None", "Left", "Center", "Right"}

\* a Tag: t is the variant; the other fields are its payload (empty when
\* the variant has none).  level: Header's i32, as <<n>>.  start: List's
\* Option<usize>, << >> for None and <<n>> for Some(n).
Tg(t) ==
    [t |-> t, level |-> << >>, al |-> << >>, info |-> << >>, start |-> << >>,
     lt |-> "", dest |-> << >>, title |-> << >>, name |-> << >>]

Header(n) == [Tg("Header") EXCEPT !.level = <<n>>]
Table(al) == [Tg("Table") EXCEPT !.al = al]
CodeBlock(info) == [Tg("CodeBlock") EXCEPT !.info = info]
List(start) == [Tg("List") EXCEPT !.start = start]
Link(lt, dest, title) == [Tg("Link") EXCEPT !.lt = lt, !.dest = dest, !.title = title]
Image(lt, dest, title) == [Tg("Image") EXCEPT !.lt = lt, !.dest = dest, !.title = title]
FootnoteDefinition(name) == [Tg("FootnoteDefinition") EXCEPT !.name = name]

\* an Event: k is the variant, tag the payload of Start/End, s the string
\* payload, b the bool of TaskListMarker
Ev(k) == [k |-> k, tag |-> Tg(""), s |-> << >>, b |-> FALSE]
Start(tag) == [Ev("Start") EXCEPT !.tag = tag]
End(tag) == [Ev("End") EXCEPT !.tag = tag]
Text(s) == [Ev("Text") EXCEPT !.s = s]
Code(s) == [Ev("Code") EXCEPT !.s = s]
Html(s) == [Ev("Html") EXCEPT !.s = s]
InlineHtml(s) == [Ev("InlineHtml") EXCEPT !.s = s]
SoftBreak == Ev("SoftBreak")
HardBreak == Ev("HardBreak")
FootnoteReference(name) == [Ev("FootnoteReference") EXCEPT !.s = name]
TaskListMarker(b) == [Ev("TaskListMarker") EXCEPT !.b = b]

(***************************************************************************)
(* Helpers on token sequences.                                             *)
(***************************************************************************)
Last(s) == s[Len(s)]

IsPrefix(s, t) == Len(s) <= Len(t) /\ SubSeq(t, 1, Len(s)) = s

RECURSIVE Str(_)
Str(toks) == IF toks = << >> THEN "" ELSE Head(toks) \o Str(Tail(toks))

RECURSIVE Flatten(_)
Flatten(ss) == IF ss = << >> THEN << >> ELSE Head(ss) \o Flatten(Tail(ss))

SeqsUpTo(S, n) == UNION {[1..k -> S] : k \in 0..n}

\* Display of an unsigned integer: the "{}" of write!
Digit == <<"0", "1", "2", "3", "4", "5", "6", "7", "8", "9">>

RECURSIVE Display(_)
Display(n) ==
    IF n < 10 THEN <<Digit[n + 1]>>
    ELSE Display(n \div 10) \o <<Digit[(n % 10) + 1]>>

(***************************************************************************)
(* escape::escape_html and escape::escape_href.  Their code is not part of *)
(* html.rs; they are modelled from their contract: every character that is *)
(* significant in element content or in a quoted attribute is replaced,    *)
(* every other character (the newline among them) is copied.               *)
(***************************************************************************)
HtmlSpecial == {"<", ">", "&", "\""}

EscapeHtmlChar(c) ==
    CASE c = "<" -> "&lt;"
      [] c = ">" -> "&gt;"
      [] c = "&" -> "&amp;"
      [] c = "\"" -> "&quot;"
      [] OTHER -> c

escape_html(s) == [i \in 1..Len(s) |-> EscapeHtmlChar(s[i])]

EscapeHrefChar(c) ==
    CASE c = "<" -> "%3C"
      [] c = ">" -> "%3E"
      [] c = "\"" -> "%22"
      [] c = " " -> "%20"
      [] c = "&" -> "&amp;"
      [] OTHER -> c

escape_href(s) == [i \in 1..Len(s) |-> EscapeHrefChar(s[i])]

(***************************************************************************)
(* The statements of a handler, in source order.  by names the function    *)
(* the statement stands in.  src names what the written text is: a markup  *)
(* literal ("lit") or the payload it comes from.                           *)
(***************************************************************************)
Op(by, op) == [by |-> by, op |-> op, s |-> << >>, nl |-> FALSE, src |-> "", v |-> ""]

\* self.write(s, nl)?
Write(by, s, nl) == [Op(by, "write") EXCEPT !.s = s, !.nl = nl, !.src = "lit"]
\* self.write(&html, false)? with a payload
WritePayload(by, s, src) == [Op(by, "write") EXCEPT !.s = s, !.src = src]
\* self.write_newline()?
WriteNewline(by) == Op(by, "write_newline")
\* self.fresh_line()?
FreshLine(by) == Op(by, "fresh_line")
\* escape_html(StrWriteMutRef(&mut self.writer), s)?
EscapeHtml(by, s, src) == [Op(by, "escape_html") EXCEPT !.s = s, !.src = src]
\* escape_href(StrWriteMutRef(&mut self.writer), s)?
EscapeHref(by, s, src) == [Op(by, "escape_href") EXCEPT !.s = s, !.src = src]
\* write!(&mut self.writer, ..)? of already formatted text
Fmt(by, s, src) == [Op(by, "fmt") EXCEPT !.s = s, !.src = src]
\* let number = *self.numbers.entry(name).or_insert(len);
Entry(by, name) == [Op(by, "entry") EXCEPT !.s = name]
\* write!(&mut self.writer, "{}", number)? and "[{}]" in raw_text
FmtNumber(by, name, pre, post) ==
    [Op(by, "fmt_number") EXCEPT !.s = name, !.src = "number", !.v = <<pre, post>>]
\* self.end_newline = b;
SetEndNewline(by, b) == [Op(by, "set_end_newline") EXCEPT !.nl = b]
\* self.table_alignments = alignments;
SetTableAlignments(by, al) == [Op(by, "set_table_alignments") EXCEPT !.s = al]
\* self.table_state = TableState::v;
SetTableState(by, v) == [Op(by, "set_table_state") EXCEPT !.v = v]
\* self.table_cell_index = 0;
ResetTableCellIndex(by) == Op(by, "reset_table_cell_index")
\* self.table_cell_index += 1;
IncTableCellIndex(by) == Op(by, "inc_table_cell_index")
\* self.raw_text()?
RawText(by) == Op(by, "raw_text")

\* str::ends_with('\n')
EndsWithNewline(s) == s # << >> /\ Last(s) = "\n"

\* info.split(' ').next().unwrap(): the text before the first space
RECURSIVE FirstField(_)
FirstField(info) ==
    IF info = << >> \/ Head(info) = " " THEN << >>
    ELSE <<Head(info)>> \o FirstField(Tail(info))

(***************************************************************************)
(* HtmlWriter::start_tag                                                   *)
(***************************************************************************)
LinkOps(prefix, tag) ==
    <<Write("start_tag", <<prefix>>, FALSE), EscapeHref("start_tag", tag.dest, "dest")>>
    \o (IF tag.title # << >>
        THEN <<Write("start_tag", <<"\" title=\"">>, FALSE),
               EscapeHtml("start_tag", tag.title, "title")>>
        ELSE << >>)
    \o <<Write("start_tag", <<"\">">>, FALSE)>>

\* get(i + 1) in place of get(i)
GetNext(v, i) == IF i + 1 < Len(v) THEN <<v[i + 2]>> ELSE << >>

\* Vec::get(i): <<v[i]>> for Some(&v[i]) (indices from 0), << >> for None
Get(v, i) == IF i < Len(v) THEN <<v[i + 1]>> ELSE << >>

\* a TableHead that leaves table_state as the last table left it
TableHeadOpsKeepState ==
    <<ResetTableCellIndex("start_tag"), Write("start_tag", <<"<thead><tr>">>, FALSE)>>

\* the arm of Tag::TableHead
TableHeadOps ==
    <<SetTableState("start_tag", "Head"), ResetTableCellIndex("start_tag"),
      Write("start_tag", <<"<thead><tr>">>, FALSE)>>

\* a TableCell arm of start_tag that also moves to the next column
TableCellOpsNext(self) ==
    LET a == Get(self.table_alignments, self.table_cell_index)
    IN  <<Write("start_tag", IF self.table_state = "Head" THEN <<"<th">> ELSE <<"<td">>, FALSE)>>
        \o (CASE a = <<"Left">> -> <<Write("start_tag", <<" align=\"left\"">>, FALSE)>>
              [] a = <<"Center">> -> <<Write("start_tag", <<" align=\"center\"">>, FALSE)>>
              [] a = <<"Right">> -> <<Write("start_tag", <<" align=\"right\"">>, FALSE)>>
              [] OTHER -> << >>)
        \o <<Write("start_tag", <<">">>, FALSE), IncTableCellIndex("start_tag")>>

TableCellOps(self) ==
    LET a == Get(self.table_alignments, self.table_cell_index)
    IN  <<Write("start_tag", IF self.table_state = "Head" THEN <<"<th">> ELSE <<"<td">>, FALSE)>>
        \o (CASE a = <<"Left">> -> <<Write("start_tag", <<" align=\"left\"">>, FALSE)>>
              [] a = <<"Center">> -> <<Write("start_tag", <<" align=\"center\"">>, FALSE)>>
              [] a = <<"Right">> -> <<Write("start_tag", <<" align=\"right\"">>, FALSE)>>
              [] OTHER -> << >>)
        \o <<Write("start_tag", <<">">>, FALSE)>>

CodeBlockOps(info) ==
    LET lang == FirstField(info)
    IN  <<FreshLine("start_tag")>>
        \o (IF lang = << >>
            THEN <<Write("start_tag", <<"<pre><code>">>, FALSE)>>
            ELSE <<Write("start_tag", <<"<pre><code class=\"language-">>, FALSE),
                   EscapeHtml("start_tag", lang, "lang"),
                   Write("start_tag", <<"\">">>, FALSE)>>)

ImageOps(tag) ==
    <<Write("start_tag", <<"<img src=\"">>, FALSE),
      EscapeHref("start_tag", tag.dest, "dest"),
      Write("start_tag", <<"\" alt=\"">>, FALSE),
      RawText("start_tag")>>
    \o (IF tag.title # << >>
        THEN <<Write("start_tag", <<"\" title=\"">>, FALSE),
               EscapeHtml("start_tag", tag.title, "title")>>
        ELSE << >>)
    \o <<Write("start_tag", <<"\" />">>, FALSE)>>

\* the arm of Some(start) put before the arm of Some(1)
ListOpsAnyStart(start) ==
    IF start # << >>
    THEN <<FreshLine("start_tag"), Write("start_tag", <<"<ol start=\"">>, FALSE),
           Fmt("start_tag", Display(start[1]), "start"),
           Write("start_tag", <<"\">">>, TRUE)>>
    ELSE <<FreshLine("start_tag"), Write("start_tag", <<"<ul>">>, TRUE)>>

\* the three arms of Tag::List, in the order of the match
ListOps(start) ==
    CASE start = <<1>> ->
           <<FreshLine("start_tag"), Write("start_tag", <<"<ol>">>, TRUE)>>
      [] start # << >> /\ start # <<1>> ->
           <<FreshLine("start_tag"), Write("start_tag", <<"<ol start=\"">>, FALSE),
             Fmt("start_tag", Display(start[1]), "start"),
             Write("start_tag", <<"\">">>, TRUE)>>
      [] start = << >> ->
           <<FreshLine("start_tag"), Write("start_tag", <<"<ul>">>, TRUE)>>

FootnoteDefinitionOps(name) ==
    <<FreshLine("start_tag"),
      Write("start_tag", <<"<div class=\"footnote-definition\" id=\"">>, FALSE),
      EscapeHtml("start_tag", name, "name"),
      Write("start_tag", <<"\"><sup class=\"footnote-definition-label\">">>, FALSE),
      Entry("start_tag", name),
      FmtNumber("start_tag", name, << >>, << >>),
      Write("start_tag", <<"</sup>">>, FALSE)>>

start_tag(self, tag) ==
    CASE tag.t = "Paragraph" ->
           <<FreshLine("start_tag"), Write("start_tag", <<"<p>">>, FALSE)>>
      [] tag.t = "Rule" ->
           <<FreshLine("start_tag"), Write("start_tag", <<"<hr />">>, TRUE)>>
      [] tag.t = "Header" ->
           <<FreshLine("start_tag"), SetEndNewline("start_tag", FALSE),
             Fmt("start_tag", <<"<h">> \o Display(tag.level[1]) \o <<">">>, "lit")>>
      [] tag.t = "Table" ->
           <<SetTableAlignments("start_tag", tag.al),
             Write("start_tag", <<"<table>">>, FALSE)>>
      [] tag.t = "TableHead" -> TableHeadOps
      [] tag.t = "TableRow" ->
           <<ResetTableCellIndex("start_tag"), Write("start_tag", <<"<tr>">>, FALSE)>>
      [] tag.t = "TableCell" -> TableCellOps(self)
      [] tag.t = "BlockQuote" ->
           <<FreshLine("start_tag"), Write("start_tag", <<"<blockquote>">>, TRUE)>>
      [] tag.t = "CodeBlock" -> CodeBlockOps(tag.info)
      [] tag.t = "List" -> ListOps(tag.start)
      [] tag.t = "Item" ->
           <<FreshLine("start_tag"), Write("start_tag", <<"<li>">>, FALSE)>>
      [] tag.t = "Emphasis" -> <<Write("start_tag", <<"<em>">>, FALSE)>>
      [] tag.t = "Strong" -> <<Write("start_tag", <<"<strong>">>, FALSE)>>
      [] tag.t = "Strikethrough" -> <<Write("start_tag", <<"<del>">>, FALSE)>>
      [] tag.t = "Link" /\ tag.lt = "Email" -> LinkOps("<a href=\"mailto:", tag)
      [] tag.t = "Link" /\ tag.lt # "Email" -> LinkOps("<a href=\"", tag)
      [] tag.t = "Image" -> ImageOps(tag)
      [] tag.t = "FootnoteDefinition" -> FootnoteDefinitionOps(tag.name)
      [] tag.t = "HtmlBlock" -> << >>

(***************************************************************************)
(* HtmlWriter::end_tag                                                     *)
(***************************************************************************)
\* a TableCell arm that closes every cell as a data cell
TableCellEndOpsData(self) ==
    <<Write("end_tag", <<"</td>">>, FALSE), IncTableCellIndex("end_tag")>>

\* the arm of Tag::TableCell in end_tag
TableCellEndOps(self) ==
    <<Write("end_tag", IF self.table_state = "Head" THEN <<"</th>">> ELSE <<"</td>">>, FALSE),
      IncTableCellIndex("end_tag")>>

end_tag(self, tag) ==
    CASE tag.t = "Paragraph" -> <<Write("end_tag", <<"</p>">>, TRUE)>>
      [] tag.t = "Rule" -> << >>
      [] tag.t = "Header" ->
           <<Fmt("end_tag", <<"</h">> \o Display(tag.level[1]), "lit"),
             Write("end_tag", <<">">>, TRUE)>>
      [] tag.t = "Table" -> <<Write("end_tag", <<"</tbody></table>">>, TRUE)>>
      [] tag.t = "TableHead" ->
           <<Write("end_tag", <<"</tr></thead><tbody>">>, TRUE),
             SetTableState("end_tag", "Body")>>
      [] tag.t = "TableRow" -> <<Write("end_tag", <<"</tr>">>, TRUE)>>
      [] tag.t = "TableCell" -> TableCellEndOps(self)
      [] tag.t = "BlockQuote" -> <<Write("end_tag", <<"</blockquote>">>, TRUE)>>
      [] tag.t = "CodeBlock" -> <<Write("end_tag", <<"</code></pre>">>, TRUE)>>
      [] tag.t = "List" /\ tag.start # << >> -> <<Write("end_tag", <<"</ol>">>, TRUE)>>
      [] tag.t = "List" /\ tag.start = << >> -> <<Write("end_tag", <<"</ul>">>, TRUE)>>
      [] tag.t = "Item" -> <<Write("end_tag", <<"</li>">>, TRUE)>>
      [] tag.t = "Emphasis" -> <<Write("end_tag", <<"</em>">>, FALSE)>>
      [] tag.t = "Strong" -> <<Write("end_tag", <<"</strong>">>, FALSE)>>
      [] tag.t = "Strikethrough" -> <<Write("end_tag", <<"</del>">>, FALSE)>>
      [] tag.t = "Link" -> <<Write("end_tag", <<"</a>">>, FALSE)>>
      [] tag.t = "Image" -> << >>
      [] tag.t = "FootnoteDefinition" -> <<Write("end_tag", <<"</div>">>, TRUE)>>
      [] tag.t = "HtmlBlock" -> << >>

(***************************************************************************)
(* The match of HtmlWriter::run: the statements run for one event.         *)
(***************************************************************************)
\* Text that leaves end_newline as it was
RunTextKeepFlag(text) == <<EscapeHtml("run", text, "text")>>

RunText(text) ==
    <<EscapeHtml("run", text, "text"), SetEndNewline("run", EndsWithNewline(text))>>

RunCode(text) ==
    <<Write("run", <<"<code>">>, FALSE), EscapeHtml("run", text, "code"),
      Write("run", <<"</code>">>, FALSE), SetEndNewline("run", FALSE)>>

RunHtml(html) == <<WritePayload("run", html, "html")>>

RunFootnoteReference(name) ==
    <<Write("run", <<"<sup class=\"footnote-reference\"><a href=\"#">>, FALSE),
      EscapeHtml("run", name, "name"),
      Write("run", <<"\">">>, FALSE),
      Entry("run", name),
      FmtNumber("run", name, << >>, << >>),
      Write("run", <<"</a></sup>">>, FALSE)>>

RunTaskListMarker(b) ==
    IF b THEN <<Write("run", <<"<input disabled=\"\" type=\"checkbox\" checked=\"\"/>">>, TRUE)>>
    ELSE <<Write("run", <<"<input disabled=\"\" type=\"checkbox\"/>">>, TRUE)>>

run(self, event) ==
    CASE event.k = "Start" -> start_tag(self, event.tag)
      [] event.k = "End" -> end_tag(self, event.tag)
      [] event.k = "Text" -> RunText(event.s)
      [] event.k = "Code" -> RunCode(event.s)
      [] event.k \in {"Html", "InlineHtml"} -> RunHtml(event.s)
      [] event.k = "SoftBreak" -> <<WriteNewline("run")>>
      [] event.k = "HardBreak" -> <<Write("run", <<"<br />">>, TRUE)>>
      [] event.k = "FootnoteReference" -> RunFootnoteReference(event.s)
      [] event.k = "TaskListMarker" -> RunTaskListMarker(event.b)

\* raw_text passing the text on as run passes Html
RawVerbatim(event) ==
    <<WritePayload("raw_text", event.s, IF event.k = "Text" THEN "text"
                                        ELSE IF event.k = "Code" THEN "code" ELSE "html")>>

(***************************************************************************)
(* The match of HtmlWriter::raw_text: the statements run for one event     *)
(* that does not end the loop (Start and End only move nest).              *)
(***************************************************************************)
RawEscaped(event) ==
    <<EscapeHtml("raw_text", event.s, IF event.k = "Text" THEN "text"
                                      ELSE IF event.k = "Code" THEN "code" ELSE "html"),
      SetEndNewline("raw_text", EndsWithNewline(event.s))>>

RawFootnoteReference(name) ==
    <<Entry("raw_text", name), FmtNumber("raw_text", name, <<"[">>, <<"]">>)>>

\* Html in the arm of InlineHtml, Code and Text
RawTextHtml(event) ==
    CASE event.k \in {"Start", "End"} -> << >>
      [] event.k \in {"Html", "InlineHtml", "Code", "Text"} -> RawEscaped(event)
      [] event.k \in {"SoftBreak", "HardBreak"} -> <<Write("raw_text", <<" ">>, FALSE)>>
      [] event.k = "FootnoteReference" -> RawFootnoteReference(event.s)
      [] event.k = "TaskListMarker" ->
           <<Write("raw_text", IF event.b THEN <<"[x]">> ELSE <<"[ ]">>, FALSE)>>

raw_text(event) ==
    CASE event.k \in {"Start", "End", "Html"} -> << >>
      [] event.k \in {"InlineHtml", "Code", "Text"} -> RawEscaped(event)
      [] event.k \in {"SoftBreak", "HardBreak"} -> <<Write("raw_text", <<" ">>, FALSE)>>
      [] event.k = "FootnoteReference" -> RawFootnoteReference(event.s)
      [] event.k = "TaskListMarker" ->
           <<Write("raw_text", IF event.b THEN <<"[x]">> ELSE <<"[ ]">>, FALSE)>>

\* nest that forgets to count Start
RawNestNoStart(n, event) == IF event.k = "End" THEN n - 1 ELSE n

\* nest after one event of raw_text's loop
RawNest(n, event) ==
    CASE event.k = "Start" -> n + 1
      [] event.k = "End" -> n - 1
      [] OTHER -> n

(***************************************************************************)
(* The sink (StrWrite) and the statement interpreter.                      *)
(*                                                                         *)
(* self is the HtmlWriter: writer (what the sink holds, one record per     *)
(* write_str/write_fmt call that succeeded), end_newline, table_state,     *)
(* table_alignments, table_cell_index, numbers (a set of <<name, number>>),*)
(* plus the bookkeeping attempts (calls made to the sink), err (a call     *)
(* returned Err) and failed (the number of the last call that did, or 0).  *)
(* fail = 1 makes the next call to the sink fail, fail = k                 *)
(* the k-th next, fail = 0 none.  c says whose statements run: ev is the   *)
(* index of the event whose handler they belong to, at the number of       *)
(* events pulled so far; both are kept in the record of each write.        *)
(***************************************************************************)
Rec(c, o, via, s) ==
    [ev |-> c.ev, at |-> c.at, by |-> o.by, via |-> via, src |-> o.src, s |-> s]

\* a sink that puts what it is given in front of what it holds
SinkWriteFront(self, fail, rec) ==
    IF fail = 1
    THEN [self EXCEPT !.attempts = @ + 1, !.err = TRUE, !.failed = self.attempts + 1]
    ELSE [self EXCEPT !.attempts = @ + 1, !.writer = <<rec>> \o @]

\* StrWrite::write_str / write_fmt: appends, or fails and appends nothing
SinkWrite(self, fail, rec) ==
    IF fail = 1
    THEN [self EXCEPT !.attempts = @ + 1, !.err = TRUE, !.failed = self.attempts + 1]
    ELSE [self EXCEPT !.attempts = @ + 1, !.writer = Append(@, rec)]

Dec(fail) == IF fail > 0 THEN fail - 1 ELSE 0

HasNumber(numbers, name) == \E p \in numbers : p[1] = name

NumberOf(numbers, name) == (CHOOSE p \in numbers : p[1] = name)[2]

\* insert(name, len) in place of entry(name).or_insert(len)
EntryInsert(numbers, name) ==
    {p \in numbers : p[1] # name} \cup {<<name, Cardinality(numbers) + 1>>}

\* or_insert(len) with len = numbers.len()
EntryOrInsertLen(numbers, name) ==
    IF HasNumber(numbers, name) THEN numbers
    ELSE numbers \cup {<<name, Cardinality(numbers)>>}

\* numbers.entry(name).or_insert(len), len = numbers.len() + 1
EntryOrInsert(numbers, name) ==
    IF HasNumber(numbers, name) THEN numbers
    ELSE numbers \cup {<<name, Cardinality(numbers) + 1>>}

\* HtmlWriter::write_newline
write_newline(self, fail, c, o) ==
    SinkWrite([self EXCEPT !.end_newline = TRUE], fail,
              [Rec(c, o, "write_newline", <<"\n">>) EXCEPT !.src = "lit"])

\* write ending the line only where fresh_line would
WriteFreshLine(self, fail, c, o) ==
    LET w1 == SinkWrite(self, fail, Rec(c, o, "write", o.s))
    IN  IF w1.err THEN [self |-> w1, fail |-> 0]
        ELSE IF o.nl
             THEN IF ~w1.end_newline
                  THEN [self |-> write_newline(w1, Dec(fail), c, o), fail |-> Dec(Dec(fail))]
                  ELSE [self |-> w1, fail |-> Dec(fail)]
             ELSE [self |-> IF o.s # << >>
                            THEN [w1 EXCEPT !.end_newline = (Last(o.s) = "\n")]
                            ELSE w1,
                   fail |-> Dec(fail)]

\* HtmlWriter::write: the record after it, and the fail count left
write(self, fail, c, o) ==
    LET w1 == SinkWrite(self, fail, Rec(c, o, "write", o.s))
    IN  IF w1.err THEN [self |-> w1, fail |-> 0]
        ELSE IF o.nl
             THEN [self |-> write_newline(w1, Dec(fail), c, o), fail |-> Dec(Dec(fail))]
             ELSE [self |-> IF o.s # << >>
                            THEN [w1 EXCEPT !.end_newline = (Last(o.s) = "\n")]
                            ELSE w1,
                   fail |-> Dec(fail)]

\* fresh_line without its test of end_newline
FreshLineAlways(self, fail, c, o) ==
    [self |-> write_newline(self, fail, c, o), fail |-> Dec(fail)]

\* HtmlWriter::fresh_line
fresh_line(self, fail, c, o) ==
    IF ~self.end_newline
    THEN [self |-> write_newline(self, fail, c, o), fail |-> Dec(fail)]
    ELSE [self |-> self, fail |-> fail]

\* one statement: the record after it, and the fail count left
Step(self, fail, c, o) ==
    CASE o.op = "write" -> write(self, fail, c, o)
      [] o.op = "write_newline" ->
           [self |-> write_newline(self, fail, c, o), fail |-> Dec(fail)]
      [] o.op = "fresh_line" -> fresh_line(self, fail, c, o)
      [] o.op = "escape_html" ->
           [self |-> SinkWrite(self, fail, Rec(c, o, "escape_html", escape_html(o.s))),
            fail |-> Dec(fail)]
      [] o.op = "escape_href" ->
           [self |-> SinkWrite(self, fail, Rec(c, o, "escape_href", escape_href(o.s))),
            fail |-> Dec(fail)]
      [] o.op = "fmt" ->
           [self |-> SinkWrite(self, fail, Rec(c, o, "write_fmt", o.s)), fail |-> Dec(fail)]
      [] o.op = "fmt_number" ->
           [self |-> SinkWrite(self, fail,
                               Rec(c, o, "write_fmt",
                                   o.v[1] \o Display(NumberOf(self.numbers, o.s)) \o o.v[2])),
            fail |-> Dec(fail)]
      [] o.op = "entry" ->
           [self |-> [self EXCEPT !.numbers = EntryOrInsert(@, o.s)], fail |-> fail]
      [] o.op = "set_end_newline" ->
           [self |-> [self EXCEPT !.end_newline = o.nl], fail |-> fail]
      [] o.op = "set_table_alignments" ->
           [self |-> [self EXCEPT !.table_alignments = o.s], fail |-> fail]
      [] o.op = "set_table_state" ->
           [self |-> [self EXCEPT !.table_state = o.v], fail |-> fail]
      [] o.op = "reset_table_cell_index" ->
           [self |-> [self EXCEPT !.table_cell_index = 0], fail |-> fail]
      [] o.op = "inc_table_cell_index" ->
           [self |-> [self EXCEPT !.table_cell_index = @ + 1], fail |-> fail]

\* the one element of a singleton: The({e(x) : x \in {v}}) is e(v), with v
\* worked out once
The(S) == CHOOSE x \in S : TRUE

\* the statements in order with the Err of a statement dropped
RECURSIVE ExecDropErr(_, _, _, _)
ExecDropErr(self, fail, c, ops) ==
    IF ops = << >> THEN [self |-> self, called |-> FALSE, rest |-> << >>]
    ELSE IF Head(ops).op = "raw_text"
    THEN [self |-> self, called |-> TRUE, rest |-> Tail(ops)]
    ELSE The({ExecDropErr(r.self, r.fail, c, Tail(ops)) :
                 r \in {Step(self, fail, c, Head(ops))}})

\* The statements ops in order, each followed by `?`: stops at the first
\* Err, and at a call of raw_text (rest is then what follows the call).
RECURSIVE Exec(_, _, _, _)
Exec(self, fail, c, ops) ==
    IF ops = << >> THEN [self |-> self, called |-> FALSE, rest |-> << >>]
    ELSE IF Head(ops).op = "raw_text"
    THEN [self |-> self, called |-> TRUE, rest |-> Tail(ops)]
    ELSE The({IF r.self.err THEN [self |-> r.self, called |-> FALSE, rest |-> << >>]
              ELSE Exec(r.self, r.fail, c, Tail(ops)) :
                 r \in {Step(self, fail, c, Head(ops))}})

(***************************************************************************)
(* The event sequences render is run on.                                   *)
(***************************************************************************)
NameA == <<"a">>
NameB == <<"b", "&">>
NameC == <<"c">>
Dest == <<"u", "&">>
Title == <<"t", "\"">>

StartTags ==
    {Tg("Paragraph"), Tg("Rule"), Header(1), Table(<< >>), Table(<<"Left", "None", "Right">>),
     Tg("TableHead"), Tg("TableRow"), Tg("TableCell"), Tg("BlockQuote"),
     CodeBlock(<< >>), CodeBlock(<<"r", "<", " ", "x">>), CodeBlock(<<" ", "r">>),
     CodeBlock(<<"r", "\t", "x">>),
     List(<< >>), List(<<0>>), List(<<1>>), List(<<3>>), Tg("Item"),
     Tg("Emphasis"), Tg("Strong"), Tg("Strikethrough"),
     Link("Email", Dest, << >>), Link("Inline", Dest, Title),
     Image("Inline", Dest, << >>), Image("Inline", Dest, Title),
     FootnoteDefinition(NameA), FootnoteDefinition(NameB), Tg("HtmlBlock")}

\* the payload of an End tag is read only for Header and List
EndTags ==
    {Tg("Paragraph"), Tg("Rule"), Header(1), Table(<< >>),
     Tg("TableHead"), Tg("TableRow"), Tg("TableCell"), Tg("BlockQuote"),
     CodeBlock(<< >>), List(<< >>), List(<<3>>), Tg("Item"),
     Tg("Emphasis"), Tg("Strong"), Tg("Strikethrough"),
     Link("Inline", Dest, << >>), Image("Inline", Dest, << >>),
     FootnoteDefinition(NameA), Tg("HtmlBlock")}

AllEvents ==
    {Start(t) : t \in StartTags} \cup {End(t) : t \in EndTags}
    \cup {Text(<< >>), Text(<<"a">>), Text(<<"<">>), Text(<<"a", "\n">>),
          Code(<<"&">>), Html(<< >>), Html(<<"<", "b", ">">>), InlineHtml(<<"<", "i", ">">>),
          SoftBreak, HardBreak, FootnoteReference(NameA), FootnoteReference(NameB),
          TaskListMarker(TRUE), TaskListMarker(FALSE)}

\* what one arbitrary event is put after
Context ==
    {Text(<<"a">>), Text(<<"a", "\n">>), Start(Image("Inline", Dest, Title)),
     Start(Table(<<"Left", "None", "Right">>)), End(Tg("TableHead")), FootnoteReference(NameB)}

Probes == {c \o <<e>> : c \in SeqsUpTo(Context, MaxCtx), e \in AllEvents}

\* the End that closes Start(t)
EndOf(t) == IF t.t \in {"Header", "List"} THEN End(t) ELSE End(Tg(t.t))

\* a context, then one element opened and closed
Pairs == {c \o <<Start(t), EndOf(t)>> : c \in SeqsUpTo(Context, MaxCtx), t \in StartTags}

ImageAlphabet ==
    {Start(Image("Inline", Dest, Title)), End(Image("Inline", Dest, Title)),
     Start(Tg("Emphasis")), End(Tg("Emphasis")), Text(<<"a">>)}

NoteAlphabet ==
    {FootnoteReference(NameA), FootnoteReference(NameB),
     Start(FootnoteDefinition(NameA)), Start(FootnoteDefinition(NameB)),
     Start(Image("Inline", Dest, << >>)), End(Image("Inline", Dest, << >>))}

\* a well-formed table: a head of h cells and one row of r cells
RECURSIVE Cells(_)
Cells(n) ==
    IF n = 0 THEN << >>
    ELSE <<Start(Tg("TableCell")), Text(<<"a">>), End(Tg("TableCell"))>> \o Cells(n - 1)

TableDoc(al, h, r) ==
    <<Start(Table(al)), Start(Tg("TableHead"))>> \o Cells(h)
    \o <<End(Tg("TableHead")), Start(Tg("TableRow"))>> \o Cells(r)
    \o <<End(Tg("TableRow")), End(Table(al))>>

Alignments ==
    {<< >>, <<"Center">>, <<"Left", "None", "Right">>, <<"None", "Right", "Center", "Left">>}

Tables == {TableDoc(al, h, r) : al \in Alignments, h \in 0..MaxCells, r \in 0..MaxCells}

\* the events of the example of push_html and write_html
Scenario ==
    <<Start(Header(1)), Text(<<"h", "e", "l", "l", "o">>), End(Header(1)),
      Start(List(<< >>)),
      Start(Tg("Item")), Text(<<"a", "l", "p", "h", "a">>), End(Tg("Item")),
      Start(Tg("Item")), Text(<<"b", "e", "t", "a">>), End(Tg("Item")),
      End(List(<< >>))>>

\* well-formed nests of blocks, inlines and text
PlainAlphabet ==
    {Start(Tg("Paragraph")), End(Tg("Paragraph")), Start(Tg("Item")), End(Tg("Item")),
     Start(Tg("Emphasis")), End(Tg("Emphasis")), Text(<<"a">>)}

(***************************************************************************)
(* Well-formed streams: every Start(tag) is closed by a later End of the   *)
(* same kind, properly nested.                                             *)
(***************************************************************************)
\* the kinds of the tags open after seq, read from the stack `open`;
\* <<"unbalanced">> when an End closes nothing or the wrong kind
RECURSIVE OpenAfter(_, _)
OpenAfter(seq, open) ==
    IF seq = << >> THEN open
    ELSE LET e == Head(seq)
         IN  CASE e.k = "Start" -> OpenAfter(Tail(seq), <<e.tag.t>> \o open)
               [] e.k = "End" ->
                    IF open # << >> /\ Head(open) = e.tag.t
                    THEN OpenAfter(Tail(seq), Tail(open))
                    ELSE <<"unbalanced">>
               [] OTHER -> OpenAfter(Tail(seq), open)

WellFormed(seq) == OpenAfter(seq, << >>) = << >>

Nests == {s \in SeqsUpTo(PlainAlphabet, MaxPlain) : WellFormed(s)}

\* one table after another
TwoTables ==
    {TableDoc(<<"Right">>, 1, 1) \o TableDoc(<<"Left">>, 1, 1),
     TableDoc(<< >>, 0, 1) \o <<Start(Table(<< >>)), Start(Tg("TableRow"))>> \o Cells(1)
        \o <<End(Tg("TableRow")), End(Table(<< >>))>>}

\* three footnote names, met again after their first occurrence
ThreeNotes ==
    <<FootnoteReference(NameC), Start(FootnoteDefinition(NameA)),
      Start(Image("Inline", Dest, << >>)), FootnoteReference(NameB), FootnoteReference(NameC),
      End(Image("Inline", Dest, << >>)), FootnoteReference(NameA), FootnoteReference(NameB)>>

\* paired streams the parser does not yield: a table head inside a cell, and
\* a table with no head
OddTables ==
    {<<Start(Tg("TableCell")), Start(Tg("TableHead")), End(Tg("TableHead")),
       End(Tg("TableCell"))>>,
     <<Start(Table(<< >>)), Start(Tg("TableRow"))>> \o Cells(1)
        \o <<End(Tg("TableRow")), End(Table(<< >>))>>}

\* streams that end a line and then write without a newline, or nothing
LineEnds ==
    {<<Text(<< >>), Start(Tg("Paragraph"))>>,
     <<Text(<<"a", "\n">>), Text(<< >>), Start(Tg("Paragraph"))>>,
     <<Start(Tg("Paragraph")), Text(<<"a">>), End(Tg("Paragraph")), Text(<< >>),
       Start(Tg("Paragraph"))>>,
     <<Start(Image("Inline", Dest, << >>)), Text(<<"a", "\n">>), FootnoteReference(NameA)>>}

Inputs ==
    Probes \cup Pairs \cup SeqsUpTo(ImageAlphabet, MaxLen) \cup SeqsUpTo(NoteAlphabet, MaxNotes)
    \cup Tables \cup TwoTables \cup OddTables \cup Nests \cup LineEnds \cup {Scenario, ThreeNotes}

\* StringWrap (push_html) and W: io::Write (write_html)
Sinks == {"buffer", "stream"}

(***************************************************************************)
(* State.  sink, input: the arguments of write_html.  pos: how many events *)
(* iter.next() has handed out; pulled[i]: the loop that pulled event i.    *)
(* pc: the loop the next iter.next() is called from ("run", "raw_text") or *)
(* "done"; result: what run returned.  nest, img, cont: raw_text's local,  *)
(* the index of the Start(Image) whose start_tag called it, and the        *)
(* statements of that start_tag that follow the call.  The other variables *)
(* are the fields of HtmlWriter (SinkWrite explains attempts and err).     *)
(***************************************************************************)
VARIABLES sink, input, pos, pulled, pc, result, nest, img, cont,
          writer, attempts, err, failed, end_newline, table_state, table_alignments,
          table_cell_index, numbers

vars == <<sink, input, pos, pulled, pc, result, nest, img, cont,
          writer, attempts, err, failed, end_newline, table_state, table_alignments,
          table_cell_index, numbers>>

Self ==
    [writer |-> writer, attempts |-> attempts, err |-> err, failed |-> failed,
     end_newline |-> end_newline,
     table_state |-> table_state, table_alignments |-> table_alignments,
     table_cell_index |-> table_cell_index, numbers |-> numbers]

Assign(self) ==
    /\ writer' = self.writer
    /\ attempts' = self.attempts
    /\ err' = self.err
    /\ failed' = self.failed
    /\ end_newline' = self.end_newline
    /\ table_state' = self.table_state
    /\ table_alignments' = self.table_alignments
    /\ table_cell_index' = self.table_cell_index
    /\ numbers' = self.numbers

\* write_html: the HtmlWriter it builds, before run
Init ==
    /\ sink \in Sinks
    /\ input \in Inputs
    /\ pos = 0
    /\ pulled = << >>
    /\ pc = "run"
    /\ result = "none"
    /\ nest = 0
    /\ img = 0
    /\ cont = << >>
    /\ writer = << >>
    /\ attempts = 0
    /\ err = FALSE
    /\ failed = 0
    /\ end_newline = TRUE
    /\ table_state = "Head"
    /\ table_alignments = << >>
    /\ table_cell_index = 0
    /\ numbers = {}

\* which call to the sink may fail in one step: none (0), or, on a stream,
\* the k-th
FailPoints(ops) == IF sink = "stream" THEN 0..(2 * Len(ops)) ELSE {0}

\* `?`: an Err leaves run at once
Return(r, next) ==
    IF r.self.err THEN pc' = "done" /\ result' = "Err"
    ELSE pc' = next /\ result' = result

\* run: iter.next() is Some(event); the event is handled, up to the call of
\* raw_text when it is Start(Image)
RunEvent ==
    /\ pc = "run"
    /\ pos < Len(input)
    /\ LET event == input[pos + 1]
           ops == run(Self, event)
       IN  \E fail \in FailPoints(ops) :
             \E r \in {Exec(Self, fail, [ev |-> pos + 1, at |-> pos + 1], ops)} :
                 /\ fail > 0 => r.self.err
                 /\ Assign(r.self)
                 /\ pos' = pos + 1
                 /\ pulled' = Append(pulled, "run")
                 /\ Return(r, IF r.called THEN "raw_text" ELSE "run")
                 /\ nest' = 0
                 /\ img' = IF r.called THEN pos + 1 ELSE img
                 /\ cont' = r.rest
    /\ UNCHANGED <<sink, input>>

\* run: iter.next() is None
RunEnd ==
    /\ pc = "run"
    /\ pos = Len(input)
    /\ pc' = "done"
    /\ result' = "Ok"
    /\ UNCHANGED <<sink, input, pos, pulled, nest, img, cont, writer, attempts, err, failed,
                   end_newline, table_state, table_alignments, table_cell_index, numbers>>

\* raw_text whose End arm counts down without the test of nest == 0
RawEventCountDown ==
    /\ pc = "raw_text"
    /\ pos < Len(input)
    /\ LET event == input[pos + 1]
           ops == raw_text(event)
       IN  \E fail \in FailPoints(ops) :
             \E r \in {Exec(Self, fail, [ev |-> pos + 1, at |-> pos + 1], ops)} :
                 /\ fail > 0 => r.self.err
                 /\ Assign(r.self)
                 /\ Return(r, "raw_text")
                 /\ nest' = RawNest(nest, event)
    /\ pos' = pos + 1
    /\ pulled' = Append(pulled, "raw_text")
    /\ UNCHANGED <<sink, input, img, cont>>

\* raw_text: iter.next() is Some(event) and the loop goes on
RawEvent ==
    /\ pc = "raw_text"
    /\ pos < Len(input)
    /\ LET event == input[pos + 1]
           ops == raw_text(event)
       IN  /\ ~(event.k = "End" /\ nest = 0)
           /\ \E fail \in FailPoints(ops) :
                \E r \in {Exec(Self, fail, [ev |-> pos + 1, at |-> pos + 1], ops)} :
                    /\ fail > 0 => r.self.err
                    /\ Assign(r.self)
                    /\ Return(r, "raw_text")
                    /\ nest' = RawNest(nest, event)
    /\ pos' = pos + 1
    /\ pulled' = Append(pulled, "raw_text")
    /\ UNCHANGED <<sink, input, img, cont>>

\* raw_text: iter.next() is an End at nest 0 (break); raw_text returns and
\* start_tag finishes the image
RawBreak ==
    /\ pc = "raw_text"
    /\ pos < Len(input)
    /\ input[pos + 1].k = "End" /\ nest = 0
    /\ \E fail \in FailPoints(cont) :
         \E r \in {Exec(Self, fail, [ev |-> img, at |-> pos + 1], cont)} :
             /\ fail > 0 => r.self.err
             /\ Assign(r.self)
             /\ Return(r, "run")
    /\ pos' = pos + 1
    /\ pulled' = Append(pulled, "raw_text")
    /\ cont' = << >>
    /\ UNCHANGED <<sink, input, nest, img>>

\* raw_text that returns Err when iter.next() is None
RawExhaustedErr ==
    /\ pc = "raw_text"
    /\ pos = Len(input)
    /\ pc' = "done"
    /\ result' = "Err"
    /\ cont' = << >>
    /\ UNCHANGED <<sink, input, pos, pulled, nest, img, writer, attempts, err, failed,
                   end_newline, table_state, table_alignments, table_cell_index, numbers>>

\* raw_text: iter.next() is None; raw_text returns and start_tag finishes
\* the image
RawExhausted ==
    /\ pc = "raw_text"
    /\ pos = Len(input)
    /\ \E fail \in FailPoints(cont) :
         \E r \in {Exec(Self, fail, [ev |-> img, at |-> pos], cont)} :
             /\ fail > 0 => r.self.err
             /\ Assign(r.self)
             /\ Return(r, "run")
    /\ cont' = << >>
    /\ UNCHANGED <<sink, input, pos, pulled, nest, img>>

Next == RunEvent \/ RunEnd \/ RawEvent \/ RawBreak \/ RawExhausted

Spec == Init /\ [][Next]_vars

\* The same program on the inputs termination is checked on.  run is a
\* sequential loop: a step that can be taken is taken.
LiveInputs == Probes \cup SeqsUpTo(ImageAlphabet, MaxLive) \cup {Scenario}

FairInit == Init /\ input \in LiveInputs

FairSpec == FairInit /\ [][Next]_vars /\ WF_vars(Next)

(***************************************************************************)
(* What the sink holds.                                                    *)
(***************************************************************************)
\* the tokens written so far, in order
Tokens(w) == Flatten([i \in 1..Len(w) |-> w[i].s])

\* the string written so far
Output == Str(Tokens(writer))

(***************************************************************************)
(* C1: rendering the example's events (a level-1 header "hello", then an   *)
(* unordered list of the items "alpha" and "beta") from a fresh HtmlWriter *)
(* gives exactly <h1>hello</h1>\n<ul>\n<li>alpha</li>\n<li>beta</li>\n     *)
(* </ul>\n, on the buffer sink (which always returns Ok) and on the stream *)
(* sink (whenever it returns Ok).                                          *)
(***************************************************************************)
ScenarioOutput == "<h1>hello</h1>\n<ul>\n<li>alpha</li>\n<li>beta</li>\n</ul>\n"

C1_Scenario ==
    (input = Scenario /\ pc = "done") =>
        /\ sink = "buffer" => result = "Ok"
        /\ result = "Ok" => Output = ScenarioOutput

C1_Witness ==
    input = Scenario /\ sink = "stream" /\ result = "Ok" /\ Output = ScenarioOutput

(***************************************************************************)
(* The history of a run, read off input, pulled and writer.                *)
(***************************************************************************)
\* event j has been pulled and its handling has returned Ok
Done(j) == j < pos \/ (j = pos /\ ~err)

\* event j was pulled by run / by raw_text
ByRun(j) == j \in 1..pos /\ pulled[j] = "run"
ByRaw(j) == j \in 1..pos /\ pulled[j] = "raw_text"

IsStart(j, t) == input[j].k = "Start" /\ input[j].tag.t = t
IsEnd(j, t) == input[j].k = "End" /\ input[j].tag.t = t

\* the writes made for event j, and their tokens
RecsOf(j) == SelectSeq(writer, LAMBDA r : r.ev = j)
TokensOf(j) == Tokens(RecsOf(j))

\* the tokens written before the i-th write
TokensBefore(i) == Tokens(SubSeq(writer, 1, i - 1))

(***************************************************************************)
(* C2: footnote numbers follow the order of first occurrence and are       *)
(* shared by the three sites.  A site is a FootnoteReference or a          *)
(* Start(FootnoteDefinition) handled by run, or a FootnoteReference        *)
(* handled by raw_text.  Every number written is written for a site, and   *)
(* it is 1 plus the count of distinct names at the sites before the first  *)
(* site of its name; every site that returned Ok wrote exactly one number. *)
(***************************************************************************)
Site(j) ==
    \/ ByRun(j) /\ (input[j].k = "FootnoteReference" \/ IsStart(j, "FootnoteDefinition"))
    \/ ByRaw(j) /\ input[j].k = "FootnoteReference"

SiteName(j) == IF input[j].k = "Start" THEN input[j].tag.name ELSE input[j].s

FirstSite(j) ==
    CHOOSE i \in 1..j :
        /\ Site(i) /\ SiteName(i) = SiteName(j)
        /\ \A h \in 1..(i - 1) : ~(Site(h) /\ SiteName(h) = SiteName(j))

FirstOccurrenceNumber(j) ==
    1 + Cardinality({SiteName(h) : h \in {h \in 1..(FirstSite(j) - 1) : Site(h)}})

NumberText(j) ==
    IF ByRaw(j) THEN <<"[">> \o Display(FirstOccurrenceNumber(j)) \o <<"]">>
    ELSE Display(FirstOccurrenceNumber(j))

NumberWrites(j) == {i \in 1..Len(writer) : writer[i].ev = j /\ writer[i].src = "number"}

C2_FootnoteNumbers ==
    /\ \A i \in 1..Len(writer) :
         writer[i].src = "number" =>
            Site(writer[i].ev) /\ writer[i].s = NumberText(writer[i].ev)
    /\ \A j \in 1..pos : (Site(j) /\ Done(j)) => Cardinality(NumberWrites(j)) = 1

\* the number text written for site j
NumberWritten(j) == writer[CHOOSE i \in NumberWrites(j) : TRUE].s

\* b, a, b over the three sites: a definition of b, a reference to a, and
\* a reference to b inside an image
C2_Witness ==
    /\ input = <<Start(FootnoteDefinition(NameB)), FootnoteReference(NameA),
                 Start(Image("Inline", Dest, << >>)), FootnoteReference(NameB)>>
    /\ result = "Ok"
    /\ NumberWritten(1) = <<"1">> /\ NumberWritten(2) = <<"2">>
    /\ NumberWritten(4) = <<"[", "1", "]">>

(***************************************************************************)
(* C3: column alignment is positional and restarts at every row.  Take a   *)
(* Start(TableCell) handled by run after a Start(Table(A)) and after a     *)
(* Start(TableHead) or Start(TableRow), the most recent of which is r; let *)
(* k be the number of cells opened since r, each of them closed again      *)
(* (cells follow one another, as in every table).  Then what is written    *)
(* after the cell's name is align="left"/"center"/"right" when k < Len(A)  *)
(* and A[k] is Left/Center/Right, and nothing but ">" when A[k] is None or *)
(* k >= Len(A).                                                            *)
(***************************************************************************)
Max0(S) == IF S = {} THEN 0 ELSE CHOOSE m \in S : \A x \in S : x <= m

TableBefore(j) == Max0({i \in 1..(j - 1) : ByRun(i) /\ IsStart(i, "Table")})

RowBefore(j) ==
    Max0({i \in 1..(j - 1) : ByRun(i) /\ (IsStart(i, "TableHead") \/ IsStart(i, "TableRow"))})

CellsOpenedSince(r, j) == {i \in (r + 1)..(j - 1) : ByRun(i) /\ IsStart(i, "TableCell")}
CellsClosedSince(r, j) == {i \in (r + 1)..(j - 1) : ByRun(i) /\ IsEnd(i, "TableCell")}

AlignAttribute(A, k) ==
    IF k >= Len(A) THEN << >>
    ELSE CASE A[k + 1] = "Left" -> <<" align=\"left\"">>
           [] A[k + 1] = "Center" -> <<" align=\"center\"">>
           [] A[k + 1] = "Right" -> <<" align=\"right\"">>
           [] A[k + 1] = "None" -> << >>

C3_Alignment ==
    \A j \in 1..pos :
        (/\ ByRun(j) /\ IsStart(j, "TableCell") /\ Done(j)
         /\ TableBefore(j) > 0 /\ RowBefore(j) > 0
         /\ Cardinality(CellsClosedSince(RowBefore(j), j))
              = Cardinality(CellsOpenedSince(RowBefore(j), j)))
        => Tail(TokensOf(j))
             = AlignAttribute(input[TableBefore(j)].tag.al,
                              Cardinality(CellsOpenedSince(RowBefore(j), j))) \o <<">">>

\* [Left, None, Right]: the three cells of the head, then again the three
\* cells of the row; and a fourth cell of a row under three alignments
C3_Witness ==
    /\ input = TableDoc(<<"Left", "None", "Right">>, 3, 3)
    /\ result = "Ok"
    /\ TokensOf(3) = <<"<th", " align=\"left\"", ">">>
    /\ TokensOf(6) = <<"<th", ">">>
    /\ TokensOf(9) = <<"<th", " align=\"right\"", ">">>
    /\ TokensOf(14) = <<"<td", " align=\"left\"", ">">>
    /\ TokensOf(17) = <<"<td", ">">>
    /\ TokensOf(20) = <<"<td", " align=\"right\"", ">">>

\* a cell beyond the alignments: the third cell of a row under [Center]
C3_WitnessMissing ==
    /\ input = TableDoc(<<"Center">>, 0, 3)
    /\ result = "Ok"
    /\ TokensOf(5) = <<"<td", " align=\"center\"", ">">>
    /\ TokensOf(11) = <<"<td", ">">>

\* Starts minus Ends among events j+1..i
Depth(j, i) ==
    Cardinality({h \in (j + 1)..i : input[h].k = "Start"})
    - Cardinality({h \in (j + 1)..i : input[h].k = "End"})

\* in a well-formed input, the End that closes the Start at j
Match(j) == CHOOSE i \in (j + 1)..Len(input) :
                /\ Depth(j, i) = -1
                /\ \A h \in (j + 1)..(i - 1) : Depth(j, h) >= 0

(***************************************************************************)
(* C4: on a well-formed input, raw_text called for a Start(Image) handled  *)
(* by run pulls exactly the events up to and including the End matching    *)
(* the image and then returns: those events are all pulled by raw_text,    *)
(* that call is no longer running once the match is pulled, and the event  *)
(* after the match is pulled by run.  No End(Image) is pulled by run, so   *)
(* none reaches end_tag.                                                   *)
(***************************************************************************)
C4_RawTextExtent ==
    WellFormed(input) =>
        /\ \A j \in 1..pos :
             (ByRun(j) /\ IsStart(j, "Image")) =>
                /\ \A i \in (j + 1)..pos : i <= Match(j) => pulled[i] = "raw_text"
                /\ pos > Match(j) => pulled[Match(j) + 1] = "run"
                /\ (pc = "raw_text" /\ img = j) => pos < Match(j)
        /\ \A i \in 1..pos : IsEnd(i, "Image") => pulled[i] = "raw_text"

\* an image holding nested emphasis, then a text: the text is back in run
C4_Witness ==
    /\ input = <<Start(Image("Inline", Dest, Title)), Start(Tg("Emphasis")),
                 End(Tg("Emphasis")), End(Image("Inline", Dest, Title)), Text(<<"a">>)>>
    /\ result = "Ok"
    /\ pulled = <<"run", "raw_text", "raw_text", "raw_text", "run">>

(***************************************************************************)
(* C5: a failure of the sink aborts the pass where it happens.  Once a     *)
(* call to the sink has returned Err, run has returned Err (and run        *)
(* returns Err for no other reason); the failing call is the last call     *)
(* made to the sink; after it nothing is written and no event is pulled.   *)
(* What was written and numbered before is kept: the sink only grows and   *)
(* the numbers table only gains entries.                                   *)
(***************************************************************************)
C5_Returned ==
    /\ err => (pc = "done" /\ result = "Err")
    /\ result = "Err" => err
    /\ attempts = Len(writer) + (IF err THEN 1 ELSE 0)
    /\ err <=> failed > 0
    /\ err => failed = attempts

C5_Abort ==
    /\ []C5_Returned
    /\ [][/\ err => (writer' = writer /\ attempts' = attempts /\ pos' = pos
                     /\ numbers' = numbers /\ result' = result)
          /\ IsPrefix(writer, writer')
          /\ numbers \subseteq numbers']_vars

\* a failure inside raw_text, after output and a footnote number, with
\* events left in the stream
C5_Witness ==
    /\ err /\ result = "Err" /\ sink = "stream"
    /\ pos < Len(input) /\ pulled[pos] = "raw_text"
    /\ writer # << >> /\ numbers # {}

(***************************************************************************)
(* C6: on any of the finite inputs render terminates; with a sink that     *)
(* does not fail it returns Ok with every event pulled: pos moves by one   *)
(* event at a time, each pull is recorded once, by run or by raw_text, and *)
(* at the end pos is the length of the input.  This holds too when the     *)
(* input ends inside an image.                                             *)
(***************************************************************************)
C6_AllPulled ==
    /\ Len(pulled) = pos
    /\ \A i \in 1..pos : pulled[i] \in {"run", "raw_text"}
    /\ (pc = "done" /\ ~err) => (result = "Ok" /\ pos = Len(input))

C6_Terminates ==
    /\ <>(pc = "done")
    /\ (sink = "buffer") => <>(result = "Ok")
    /\ []C6_AllPulled
    /\ [][/\ pos' \in {pos, pos + 1}
          /\ IsPrefix(pulled, pulled')
          /\ input' = input]_vars

\* an input that ends inside an image: the last event was pulled by
\* raw_text and was not the End that closes the image
C6_Witness ==
    /\ result = "Ok" /\ pos = Len(input) /\ pos > 1
    /\ pulled[pos] = "raw_text"
    /\ ~(input[pos].k = "End" /\ nest = 0)

(***************************************************************************)
(* C7: output is written in the order events are consumed.  As claimed:    *)
(* every write is made for the event pulled last (ev = at), so all output  *)
(* of an event is in the sink before the next event is pulled.             *)
(***************************************************************************)
C7_Original == \A i \in 1..Len(writer) : writer[i].at = writer[i].ev

(***************************************************************************)
(* C7 as the code has it: the sink is only appended to, each write is made *)
(* before the next event is pulled, and it is made for the event pulled    *)
(* last, except for the end of an image (its title attribute and the       *)
(* closing of the element, which start_tag writes for Start(Image) after   *)
(* raw_text has pulled the events inside the image and the End closing     *)
(* it): those writes come after the output of the events raw_text pulled   *)
(* and before any later event is pulled.                                   *)
(***************************************************************************)
ImageTail(i) ==
    LET r == writer[i]
    IN  /\ r.by = "start_tag" /\ r.src \in {"lit", "title"}
        /\ ByRun(r.ev) /\ IsStart(r.ev, "Image")
        /\ r.ev < r.at
        /\ \A h \in (r.ev + 1)..r.at : pulled[h] = "raw_text"

C7_Written ==
    /\ \A i \in 1..Len(writer) :
         /\ writer[i].at <= pos
         /\ writer[i].at = writer[i].ev \/ ImageTail(i)
    /\ \A i, k \in 1..Len(writer) : i < k => writer[i].at <= writer[k].at

C7_Order ==
    /\ []C7_Written
    /\ [][/\ IsPrefix(writer, writer')
          /\ \A i \in (Len(writer) + 1)..Len(writer') : writer'[i].at = pos']_vars

\* an image with a text inside: its title is written after the text
C7_Witness ==
    \E i, k \in 1..Len(writer) :
        /\ k < i /\ writer[k].ev > writer[i].ev
        /\ ImageTail(i) /\ writer[i].src = "title"
        /\ input[writer[k].ev].k = "Text"

(***************************************************************************)
(* C8: on a well-formed input with no image, table or footnote, what run   *)
(* writes for a Start or an End.  The markup of a tag is what a writer     *)
(* just built (write_html) writes for it.                                  *)
(***************************************************************************)
NoConstructs(seq) ==
    \A i \in 1..Len(seq) :
        /\ seq[i].k # "FootnoteReference"
        /\ seq[i].k \in {"Start", "End"} =>
             seq[i].tag.t \notin {"Image", "Table", "TableHead", "TableRow", "TableCell",
                                  "FootnoteDefinition"}

NewWriter ==
    [writer |-> << >>, attempts |-> 0, err |-> FALSE, failed |-> 0, end_newline |-> TRUE,
     table_state |-> "Head", table_alignments |-> << >>, table_cell_index |-> 0,
     numbers |-> {}]

Markup(event) ==
    Tokens(Exec(NewWriter, 0, [ev |-> 0, at |-> 0], run(NewWriter, event)).self.writer)

\* C8 as claimed: the output of every Start and End is the markup of its
\* tag, whatever the render state and the events before it
C8_Original ==
    (WellFormed(input) /\ NoConstructs(input)) =>
        \A j \in 1..pos :
            (Done(j) /\ input[j].k \in {"Start", "End"}) => TokensOf(j) = Markup(input[j])

\* the Starts whose handler begins with fresh_line
OnFreshLine(event) ==
    /\ event.k = "Start"
    /\ event.tag.t \in {"Paragraph", "Rule", "Header", "BlockQuote", "CodeBlock", "List", "Item"}

(***************************************************************************)
(* C8 as the code has it: the output of a Start or an End is the markup of *)
(* its tag, which depends on the tag alone, except that the Start of a     *)
(* paragraph, rule, header, block quote, code block, list or item writes   *)
(* one newline before its markup when end_newline is false, which depends  *)
(* on what was written before.  The output of an End, and of the Start of  *)
(* an inline tag, is its markup alone.                                     *)
(***************************************************************************)
C8_Markup ==
    [][(/\ WellFormed(input) /\ NoConstructs(input)
        /\ pos' = pos + 1 /\ ~err'
        /\ input[pos'].k \in {"Start", "End"})
       => Tokens(SubSeq(writer', Len(writer) + 1, Len(writer')))
            = (IF OnFreshLine(input[pos']) /\ ~end_newline THEN <<"\n">> ELSE << >>)
              \o Markup(input[pos'])]_vars

\* a paragraph opened right after <li>, as in a loose list: a newline, then <p>
C8_Witness ==
    /\ WellFormed(input) /\ NoConstructs(input)
    /\ pos >= 2 /\ ~err
    /\ input[pos] = Start(Tg("Paragraph")) /\ input[pos - 1] = Start(Tg("Item"))
    /\ TokensOf(pos) = <<"\n", "<p>">>
    /\ Markup(input[pos]) = <<"<p>">>

(***************************************************************************)
(* C9: block elements start on their own line.  Whenever run has handled   *)
(* the Start of a paragraph, rule, header, block quote, code block, list,  *)
(* item or footnote definition, the opening markup written for it (its     *)
(* first write other than the newline of fresh_line) is the first output   *)
(* of the pass or comes right after a newline.                             *)
(***************************************************************************)
BlockTags ==
    {"Paragraph", "Rule", "Header", "BlockQuote", "CodeBlock", "List", "Item",
     "FootnoteDefinition"}

\* the writes of markup made for event j
MarkupWrites(j) ==
    {i \in 1..Len(writer) : writer[i].ev = j /\ writer[i].via # "write_newline"}

Min(S) == CHOOSE m \in S : \A x \in S : m <= x

C9_OwnLine ==
    \A j \in 1..pos :
        (ByRun(j) /\ input[j].k = "Start" /\ input[j].tag.t \in BlockTags
         /\ MarkupWrites(j) # {}) =>
            LET before == TokensBefore(Min(MarkupWrites(j)))
            IN  before = << >> \/ Last(before) = "\n"

\* a paragraph opened after a text that does not end its line
C9_Witness ==
    /\ pos >= 2 /\ ~err
    /\ ByRun(pos) /\ IsStart(pos, "Paragraph")
    /\ ByRun(pos - 1) /\ input[pos - 1] = Text(<<"a">>)
    /\ MarkupWrites(pos) # {}
    /\ TokensBefore(Min(MarkupWrites(pos))) = <<"a", "\n">>

(***************************************************************************)
(* C10: payload reaches the sink only through escape_html or escape_href.  *)
(* Every write of the payload of an event (the text of Text and Code, a    *)
(* footnote name, the language of a code block, a title, a destination,    *)
(* the text of InlineHtml inside an image) is made by escape_href for a    *)
(* destination and by escape_html for the rest, in run and in raw_text;    *)
(* the one exception is the text of Html and InlineHtml handled by run,    *)
(* which write passes on as it is.  Every Text, Code, Html and InlineHtml  *)
(* that was handled has such a write, except Html inside an image, which   *)
(* is dropped.                                                             *)
(***************************************************************************)
PayloadSrc == {"text", "code", "name", "lang", "title", "dest", "html"}

Verbatim(r) ==
    /\ r.via = "write" /\ r.src = "html" /\ r.by = "run"
    /\ ByRun(r.ev) /\ input[r.ev].k \in {"Html", "InlineHtml"}
    /\ r.s = input[r.ev].s

C10_Escaped ==
    /\ \A i \in 1..Len(writer) :
         LET r == writer[i]
         IN  /\ r.src \in PayloadSrc =>
                  \/ r.via = "escape_href" /\ r.src = "dest"
                  \/ r.via = "escape_html" /\ r.src # "dest"
                  \/ Verbatim(r)
             /\ r.via \in {"escape_html", "escape_href"} => r.src \in PayloadSrc
    /\ \A j \in 1..pos :
         (Done(j) /\ input[j].k \in {"Text", "Code", "Html", "InlineHtml"}
          /\ ~(ByRaw(j) /\ input[j].k = "Html")) =>
            \E i \in 1..Len(writer) :
                /\ writer[i].ev = j /\ writer[i].src \in {"text", "code", "html"}
                /\ writer[i].by = (IF ByRaw(j) THEN "raw_text" ELSE "run")

\* a text with < inside an image: raw_text wrote it through escape_html
C10_Witness ==
    \E i \in 1..Len(writer) :
        /\ writer[i].by = "raw_text" /\ writer[i].via = "escape_html"
        /\ ByRaw(writer[i].ev) /\ input[writer[i].ev] = Text(<<"<">>)
        /\ writer[i].s = <<"&lt;">>

(***************************************************************************)
(* C11: the markup of lists.  For a list handled by run, after the newline *)
(* fresh_line may write: Start(List(Some(n))) with n # 1 writes            *)
(* <ol start="n"> and a newline, Start(List(Some(1))) writes <ol> and a    *)
(* newline with no start attribute, Start(List(None)) writes <ul> and a    *)
(* newline; End(List(Some(_))) writes </ol> and End(List(None)) </ul>.  On *)
(* a well-formed input where the End of a list carries the tag of its      *)
(* Start, the closing tag has the name of the opening tag.                 *)
(***************************************************************************)
AfterFreshLine(toks) == IF toks # << >> /\ Head(toks) = "\n" THEN Tail(toks) ELSE toks

ListOpening(start) ==
    CASE start = << >> -> <<"<ul>", "\n">>
      [] start = <<1>> -> <<"<ol>", "\n">>
      [] OTHER -> <<"<ol start=\"">> \o Display(start[1]) \o <<"\">", "\n">>

ListClosing(start) == IF start = << >> THEN <<"</ul>", "\n">> ELSE <<"</ol>", "\n">>

\* ol or ul, read from the markup written for event j
ListName(j) ==
    LET t == Str(AfterFreshLine(TokensOf(j)))
    IN  IF t \in {"<ol>\n", "</ol>\n"} \/ IsPrefix(<<"<ol start=\"">>, AfterFreshLine(TokensOf(j)))
        THEN "ol"
        ELSE IF t \in {"<ul>\n", "</ul>\n"} THEN "ul" ELSE "none"

C11_ListMarkup ==
    /\ \A j \in 1..pos :
         (Done(j) /\ ByRun(j)) =>
            /\ IsStart(j, "List") =>
                  AfterFreshLine(TokensOf(j)) = ListOpening(input[j].tag.start)
            /\ IsEnd(j, "List") => TokensOf(j) = ListClosing(input[j].tag.start)
    /\ WellFormed(input) =>
         \A j \in 1..pos :
            (ByRun(j) /\ IsStart(j, "List") /\ Match(j) <= pos /\ Done(Match(j))
             /\ input[Match(j)].tag = input[j].tag) =>
                /\ ListName(j) \in {"ol", "ul"}
                /\ ListName(Match(j)) = ListName(j)

\* <ol start="3"> closed by </ol>, and an <ol> with no attribute for Some(1)
C11_Witness ==
    /\ pos >= 2 /\ ~err /\ WellFormed(input)
    /\ ByRun(pos) /\ ByRun(pos - 1)
    /\ input[pos - 1].k = "Start" /\ input[pos].k = "End"
    /\ input[pos - 1].tag = List(<<3>>) /\ input[pos].tag = List(<<3>>)
    /\ Str(AfterFreshLine(TokensOf(pos - 1))) = "<ol start=\"3\">\n"
    /\ Str(TokensOf(pos)) = "</ol>\n"
    /\ Str(Markup(Start(List(<<1>>)))) = "<ol>\n"

(***************************************************************************)
(* C12: end_newline mirrors the output.  After every event handled without *)
(* a sink failure, by run or by raw_text, once anything was written,       *)
(* end_newline is true exactly when the last character written is a        *)
(* newline.                                                                *)
(***************************************************************************)
C12_Mirror ==
    (~err /\ Tokens(writer) # << >>) =>
        (end_newline <=> Last(Tokens(writer)) = "\n")

\* C12 inside raw_text: a footnote reference written after a text that ended
\* its line leaves end_newline true
C12_RawMirror ==
    (~err /\ pc = "raw_text" /\ pos >= 1 /\ input[pos].k = "FootnoteReference") =>
        (end_newline <=> Last(Tokens(writer)) = "\n")

(***************************************************************************)
(* C13 as claimed: right after run has handled a Start(Table), table_state *)
(* is Head.                                                                *)
(***************************************************************************)
C13_Original ==
    (pos >= 1 /\ ~err /\ ByRun(pos) /\ IsStart(pos, "Table")) => table_state = "Head"

\* the last Start(TableHead) or End(TableHead) handled by run before event j
SectionBefore(j) ==
    Max0({i \in 1..(j - 1) : ByRun(i) /\ (IsStart(i, "TableHead") \/ IsEnd(i, "TableHead"))})

(***************************************************************************)
(* C13 as the code has it: table_state is set to Head by Start(TableHead), *)
(* not by Start(Table), which leaves it as it was (Body after an earlier   *)
(* table).  Right after run has handled a Start(TableHead), table_state is *)
(* Head; a cell opened after a Start(TableHead) and before the next        *)
(* End(TableHead), or before any of the two, is written as <th, and a cell *)
(* opened after an End(TableHead) with no Start(TableHead) since as <td.   *)
(***************************************************************************)
C13_Section ==
    /\ (pos >= 1 /\ ~err /\ ByRun(pos) /\ IsStart(pos, "TableHead")) => table_state = "Head"
    /\ \A j \in 1..pos :
         (ByRun(j) /\ IsStart(j, "TableCell") /\ Done(j)) =>
            Head(TokensOf(j)) = (IF SectionBefore(j) > 0 /\ IsEnd(SectionBefore(j), "TableHead")
                                 THEN "<td" ELSE "<th")

C13_HeadReset ==
    /\ []C13_Section
    /\ [][(pc = "run" /\ pos' = pos + 1 /\ input[pos'].k = "Start"
           /\ input[pos'].tag.t = "Table") => table_state' = table_state]_vars

\* the head cell of a second table, after the first table left Body: <th
C13_Witness ==
    /\ input = TableDoc(<<"Right">>, 1, 1) \o TableDoc(<<"Left">>, 1, 1)
    /\ pos = 15 /\ ~err
    /\ IsEnd(6, "TableHead") /\ IsStart(13, "Table") /\ IsStart(14, "TableHead")
    /\ IsStart(15, "TableCell")
    /\ TokensOf(8) = <<"<td", " align=\"right\"", ">">>
    /\ TokensOf(15) = <<"<th", " align=\"left\"", ">">>
    /\ table_state = "Head"

(***************************************************************************)
(* C14: the table of footnote numbers is empty when the pass begins, in    *)
(* every state it gives each of its N names one number and the numbers are *)
(* exactly 1..N, and a step never removes or changes an entry: it leaves   *)
(* the table as it is or adds one name.                                    *)
(***************************************************************************)
C14_Dense ==
    /\ \A p, q \in numbers : p[1] = q[1] => p = q
    /\ {p[2] : p \in numbers} = 1..Cardinality(numbers)

C14_Numbers ==
    /\ numbers = {}
    /\ []C14_Dense
    /\ [][/\ numbers \subseteq numbers'
          /\ Cardinality(numbers') <= Cardinality(numbers) + 1]_vars

\* three names numbered 1, 2, 3 in the order met, each met again since
C14_Witness ==
    /\ input = ThreeNotes /\ result = "Ok"
    /\ numbers = {<<NameC, 1>>, <<NameA, 2>>, <<NameB, 3>>}

(***************************************************************************)
(* C15: raw_text on any input, balanced or not.  nest is never negative:   *)
(* while raw_text runs it is the number of Starts minus the number of Ends *)
(* pulled since the image, and an End met at nest 0 ends the loop.  With a *)
(* sink that does not fail nothing fails: the pass never returns Err, also *)
(* when the input ends inside the image; and once raw_text has returned,   *)
(* start_tag has closed the image element.                                 *)
(***************************************************************************)
\* raw_text was called for the image at j and has returned
Flattened(j) == ByRun(j) /\ IsStart(j, "Image") /\ ~err /\ ~(pc = "raw_text" /\ img = j)

C15_Flattener ==
    /\ nest >= 0
    /\ pc = "raw_text" => (img \in 1..pos /\ nest = Depth(img, pos))
    /\ sink = "buffer" => (~err /\ result # "Err")
    /\ result = "Err" => err
    /\ \A j \in 1..pos :
         Flattened(j) => (TokensOf(j) # << >> /\ Last(TokensOf(j)) = "\" />")

\* the input ends inside an emphasis inside an image: Ok, and the image is
\* closed
C15_Witness ==
    /\ input = <<Start(Image("Inline", Dest, Title)), Start(Tg("Emphasis")), Text(<<"a">>)>>
    /\ sink = "buffer" /\ pc = "done" /\ result = "Ok" /\ nest = 1
    /\ Str(Tokens(writer)) = "<img src=\"u&amp;\" alt=\"a\" title=\"t&quot;\" />"

(***************************************************************************)
(* C16: what raw_text writes is flat text.  For every event pulled by      *)
(* raw_text and handled without a sink failure: a Start, an End (nested    *)
(* images and links among them) and an Html write nothing; a SoftBreak and *)
(* a HardBreak write one space; Text, Code and InlineHtml write their      *)
(* payload as escape_html gives it; a FootnoteReference writes [n] with n  *)
(* the number of its name; a TaskListMarker writes [x] or [ ].  No write   *)
(* of raw_text is markup: its literals are the space and the two markers,  *)
(* and none of its tokens is < or >.                                       *)
(***************************************************************************)
FlatText(j) ==
    LET e == input[j]
    IN  CASE e.k \in {"Start", "End", "Html"} -> << >>
          [] e.k \in {"SoftBreak", "HardBreak"} -> <<" ">>
          [] e.k \in {"Text", "Code", "InlineHtml"} -> escape_html(e.s)
          [] e.k = "FootnoteReference" ->
               <<"[">> \o Display(NumberOf(numbers, e.s)) \o <<"]">>
          [] e.k = "TaskListMarker" -> IF e.b THEN <<"[x]">> ELSE <<"[ ]">>

C16_FlatText ==
    /\ \A j \in 1..pos : (ByRaw(j) /\ Done(j)) => TokensOf(j) = FlatText(j)
    /\ \A i \in 1..Len(writer) :
         (writer[i].by = "raw_text" \/ ByRaw(writer[i].ev)) =>
            /\ writer[i].by = "raw_text" /\ ByRaw(writer[i].ev)
            /\ writer[i].src = "lit" => writer[i].s \in {<<" ">>, <<"[x]">>, <<"[ ]">>}
            /\ \A k \in 1..Len(writer[i].s) : writer[i].s[k] \notin {"<", ">"}

\* a block of html inside an image: dropped
C16_Witness ==
    /\ pos = 2 /\ ~err /\ pc = "raw_text"
    /\ ByRun(1) /\ IsStart(1, "Image") /\ ByRaw(2)
    /\ input[2] = Html(<<"<", "b", ">">>)
    /\ TokensOf(2) = << >>
    /\ Last(Tokens(writer)) = "\" alt=\""

\* a hard break inside an image: one space
C16_WitnessBreak ==
    /\ pos = 2 /\ ~err /\ pc = "raw_text"
    /\ ByRaw(2) /\ input[2] = HardBreak
    /\ TokensOf(2) = <<" ">>

(***************************************************************************)
(* C17: the newline of fresh_line (the first write of a block Start, made  *)
(* by write_newline before any markup) is never the first character of    *)
(* the output and never comes right after another newline.                 *)
(***************************************************************************)
FreshNewline(i) ==
    /\ writer[i].via = "write_newline" /\ writer[i].by = "start_tag"
    /\ input[writer[i].ev].k = "Start"
    /\ \A h \in 1..(i - 1) : writer[h].ev # writer[i].ev

C17_FreshLine ==
    \A i \in 1..Len(writer) :
        FreshNewline(i) => (TokensBefore(i) # << >> /\ Last(TokensBefore(i)) # "\n")

\* C17, second half alone: the newline of fresh_line does not follow a newline
C17_NotDoubled ==
    \A i \in 1..Len(writer) :
        (FreshNewline(i) /\ TokensBefore(i) # << >>) => Last(TokensBefore(i)) # "\n"

(***************************************************************************)
(* C18: the language of a code block is the first whitespace-delimited     *)
(* token of info.  For a Start(CodeBlock(info)) handled by run, after the  *)
(* newline fresh_line may write: <pre><code> when info has no token (it is *)
(* empty or all whitespace), else <pre><code class="language-T"> with T    *)
(* the escape_html of the first token; what follows the token is dropped.  *)
(***************************************************************************)
Whitespace == {" ", "\t", "\n"}

RECURSIVE SkipWhitespace(_)
SkipWhitespace(info) ==
    IF info # << >> /\ Head(info) \in Whitespace THEN SkipWhitespace(Tail(info)) ELSE info

RECURSIVE UpToWhitespace(_)
UpToWhitespace(info) ==
    IF info = << >> \/ Head(info) \in Whitespace THEN << >>
    ELSE <<Head(info)>> \o UpToWhitespace(Tail(info))

FirstToken(info) == UpToWhitespace(SkipWhitespace(info))

C18_Language ==
    \A j \in 1..pos :
        (ByRun(j) /\ IsStart(j, "CodeBlock") /\ Done(j)) =>
            AfterFreshLine(TokensOf(j))
              = (IF FirstToken(input[j].tag.info) = << >> THEN <<"<pre><code>">>
                 ELSE <<"<pre><code class=\"language-">>
                      \o escape_html(FirstToken(input[j].tag.info)) \o <<"\">">>)

\* C18 for info strings that do not begin with whitespace
C18_NoLeadingSpace ==
    \A j \in 1..pos :
        (ByRun(j) /\ IsStart(j, "CodeBlock") /\ Done(j)
         /\ SkipWhitespace(input[j].tag.info) = input[j].tag.info) =>
            AfterFreshLine(TokensOf(j))
              = (IF FirstToken(input[j].tag.info) = << >> THEN <<"<pre><code>">>
                 ELSE <<"<pre><code class=\"language-">>
                      \o escape_html(FirstToken(input[j].tag.info)) \o <<"\">">>)

(***************************************************************************)
(* C19: table markup on well-formed input.                                 *)
(***************************************************************************)
\* in a well-formed input, the Start that the End at m closes
StartOf(m) == CHOOSE j \in 1..(m - 1) : input[j].k = "Start" /\ Match(j) = m

\* a cell and its End, both handled by run
CellPair(j) ==
    /\ ByRun(j) /\ IsStart(j, "TableCell")
    /\ Match(j) <= pos /\ Done(Match(j))

\* th or td, read from the markup written for the Start or End at j
CellName(j) ==
    IF TokensOf(j) # << >> /\ Head(TokensOf(j)) \in {"<th", "</th>"} THEN "th"
    ELSE IF TokensOf(j) # << >> /\ Head(TokensOf(j)) \in {"<td", "</td>"} THEN "td"
    ELSE "none"

\* the writes of tok made for the events j..m
WritesOf(tok, j, m) ==
    {i \in 1..Len(writer) : /\ writer[i].ev \in j..m
                            /\ \E k \in 1..Len(writer[i].s) : writer[i].s[k] = tok}

\* the events among j+1..m-1 handled by run that start or end a TableHead
HeadEvents(j, m) == {i \in (j + 1)..(m - 1) : ByRun(i) /\ input[i].tag.t = "TableHead"}

(***************************************************************************)
(* C19 as claimed, for every well-formed input: a cell is closed under the *)
(* name it was opened under, and for every End(Table) that wrote </tbody>  *)
(* an End(TableHead) of that table wrote <tbody>.                          *)
(***************************************************************************)
C19_Original ==
    WellFormed(input) =>
        /\ \A j \in 1..pos :
             CellPair(j) => (CellName(j) # "none" /\ CellName(Match(j)) = CellName(j))
        /\ \A m \in 1..pos :
             (ByRun(m) /\ IsEnd(m, "Table") /\ Done(m)) =>
                Cardinality(WritesOf("</tr></thead><tbody>", StartOf(m), m))
                  = Cardinality(WritesOf("</tbody></table>", StartOf(m), m))

\* the first half of C19 as claimed, alone
C19_CellNames ==
    WellFormed(input) =>
        \A j \in 1..pos :
            CellPair(j) => (CellName(j) # "none" /\ CellName(Match(j)) = CellName(j))

(***************************************************************************)
(* C19 as the code has it, for well-formed input: a cell is closed under   *)
(* the name it was opened under when run handles no Start or End of a      *)
(* TableHead between the Start and the End of the cell; every End(Table)   *)
(* writes one </tbody>, and between the Start and the End of a table one   *)
(* <tbody> is written for each End(TableHead) run handles there: one when  *)
(* the table has one TableHead, none when it has none.                     *)
(***************************************************************************)
C19_Balanced ==
    WellFormed(input) =>
        /\ \A j \in 1..pos :
             (CellPair(j) /\ HeadEvents(j, Match(j)) = {}) =>
                (CellName(j) # "none" /\ CellName(Match(j)) = CellName(j))
        /\ \A m \in 1..pos :
             (ByRun(m) /\ IsEnd(m, "Table") /\ Done(m)) =>
                /\ Cardinality(WritesOf("</tbody></table>", m, m)) = 1
                /\ Cardinality(WritesOf("</tr></thead><tbody>", StartOf(m), m))
                     = Cardinality({i \in HeadEvents(StartOf(m), m) : input[i].k = "End"})

\* a table of three head cells and three row cells: th closed by th, td by
\* td, one <tbody> for the </tbody>
C19_Witness ==
    /\ input = TableDoc(<<"Left", "None", "Right">>, 3, 3)
    /\ result = "Ok"
    /\ CellName(3) = "th" /\ Match(3) = 5 /\ CellName(5) = "th"
    /\ CellName(14) = "td" /\ Match(14) = 16 /\ CellName(16) = "td"
    /\ StartOf(24) = 1
    /\ Cardinality(WritesOf("</tr></thead><tbody>", 1, 24)) = 1
    /\ Cardinality(WritesOf("</tbody></table>", 1, 24)) = 1

(***************************************************************************)
(* C20: the table state changes only at table events handled by run.  A    *)
(* step changes table_alignments only when run handles a Start(Table),     *)
(* table_cell_index only when run handles a Start(TableHead), a            *)
(* Start(TableRow) or an End(TableCell), and table_state only when run     *)
(* handles a Start(TableHead) or an End(TableHead); a step of raw_text,    *)
(* whatever the event (table events inside an image among them), and the   *)
(* end of the image, change none of the three.                             *)
(***************************************************************************)
\* this step is run handling an event of kind k with a tag named t
RunHandles(k, t) ==
    /\ pc = "run" /\ pos' = pos + 1
    /\ input[pos'].k = k /\ input[pos'].tag.t = t

C20_Frame ==
    [][/\ table_alignments' # table_alignments => RunHandles("Start", "Table")
       /\ table_cell_index' # table_cell_index =>
             \/ RunHandles("Start", "TableHead")
             \/ RunHandles("Start", "TableRow")
             \/ RunHandles("End", "TableCell")
       /\ table_state' # table_state =>
             (RunHandles("Start", "TableHead") \/ RunHandles("End", "TableHead"))
       /\ pc = "raw_text" =>
             /\ table_alignments' = table_alignments
             /\ table_cell_index' = table_cell_index
             /\ table_state' = table_state]_vars

\* after a table of three columns: all three fields have moved
C20_Witness ==
    /\ input = TableDoc(<<"Left", "None", "Right">>, 3, 3)
    /\ result = "Ok"
    /\ table_alignments = <<"Left", "None", "Right">>
    /\ table_cell_index = 3
    /\ table_state = "Body"

\* a Start(Table) and an End(TableHead) pulled inside an image: nothing moved
C20_WitnessRaw ==
    /\ pos = 2 /\ ~err /\ pc = "raw_text" /\ ByRaw(2)
    /\ \/ IsStart(2, "Table") /\ input[2].tag.al # << >>
       \/ IsEnd(2, "TableHead")
    /\ table_alignments = << >> /\ table_cell_index = 0 /\ table_state = "Head"

====
